---- MODULE Spec2Model ----
(***************************************************************************)
(* Model of the hexagonal-grid core of HappyHex (src/python/hex.py):       *)
(* the Hex coordinate, the Block cell, the Piece shape and the HexEngine   *)
(* board with placement, lookup and line elimination.                      *)
(*                                                                         *)
(* A Hex is a record [x, y] of its two raw bases; a Block is a record      *)
(* [x, y, color, state].  Python's None is the record None.  Python lists  *)
(* are sequences; the code's 0-based indexes are kept in the arithmetic    *)
(* and shifted by one only where a sequence is subscripted.                *)
(***************************************************************************)
EXTENDS Integers, Sequences, FiniteSets, TLC

VARIABLES obj, queue, radius, blocks, ops, last, ctor, conv, pieceA, pieceB, cmp

vars == <<obj, queue, radius, blocks, ops, last, ctor, conv, pieceA, pieceB, cmp>>

(***************************************************************************)
(* Bounds of the model.                                                    *)
(***************************************************************************)
\* largest board radius of the board specification
MaxRadius == 2
\* number of mutating calls (add, eliminate, reset) made on one board
MaxOps == 2
\* largest radius constructed step by step
MaxCtorRadius == 5
\* largest data value handed to piece_from_byte
MaxData == 130
\* largest capacity of a piece built slot by slot
MaxCap == 2
\* largest line index, either sign, of a coordinate object
MaxLine == 3
\* largest unit, either sign, of a move or shift
MaxUnit == 2
\* largest radius of a board that is queried
MaxQRadius == 3
\* a board that is queried has at most MaxFill cells occupied, or at most
\* MaxFill cells unoccupied
MaxFill == 1
\* largest length of the queue handed to a heuristic
MaxQueue == 2

(***************************************************************************)
(* Program constants.                                                      *)
(***************************************************************************)
\* Block.__init__: color = 0
DefaultColor == 0
\* HexEngine.set_state: color of a cleared block
EmptyColor == -1
\* HexEngine.set_state: color of a block set occupied without a piece
FilledColor == -2

None == [nil |-> TRUE]

IsNone(b) == "nil" \in DOMAIN b

(***************************************************************************)
(* class Hex                                                               *)
(***************************************************************************)
Hex(i, k) == [x |-> i, y |-> k]

\* Python's n // 3: the quotient rounded towards minus infinity
FloorDiv3(n) == IF n >= 0 THEN n \div 3 ELSE 0 - ((2 - n) \div 3)

get_line_i(h) == FloorDiv3(2 * h.y + h.x)

get_line_j(h) == FloorDiv3(h.x - h.y)

get_line_k(h) == FloorDiv3(2 * h.x + h.y)

Hex_shift_i(h, unit) == Hex(h.x + 2 * unit, h.y - unit)

Hex_shift_j(h, unit) == Hex(h.x + unit, h.y + unit)

Hex_shift_k(h, unit) == Hex(h.x - unit, h.y + 2 * unit)

\* the factory with the two shifts taking each other's argument
hex_shifts_swapped(i, k) == Hex_shift_k(Hex_shift_i(Hex(0, 0), i), k)

\* Hex.hex(i, k): the factory from line indices
hex(i, k) == Hex_shift_k(Hex_shift_i(Hex(0, 0), k), i)

\* in_range without the test of the J line
Hex_in_range_no_j(h, r) ==
    /\ 0 <= get_line_i(h) /\ get_line_i(h) < r * 2 - 1
    /\ 0 <= get_line_k(h) /\ get_line_k(h) < r * 2 - 1

Hex_in_range(h, r) ==
    /\ 0 <= get_line_i(h) /\ get_line_i(h) < r * 2 - 1
    /\ 0 - r < get_line_j(h) /\ get_line_j(h) < r
    /\ 0 <= get_line_k(h) /\ get_line_k(h) < r * 2 - 1

\* Hex.__eq__: the raw bases are compared
Hex_eq(a, b) == a.x = b.x /\ a.y = b.y

\* Hex.__add__ with a plain Hex as the other operand
Hex_add(h, other) == Hex(h.x + other.x, h.y + other.y)

\* Hex.__this__
this(h) == hex(get_line_i(h), get_line_k(h))

(***************************************************************************)
(* class Block                                                             *)
(***************************************************************************)
\* Block.__init__(__hex__, color, state)
Block(h, color, state) == [x |-> h.x, y |-> h.y, color |-> color, state |-> state]

\* Block.move_i / move_k: the in-place moves, as the value the object then holds
move_i(b, unit) == [b EXCEPT !.x = b.x + 2 * unit, !.y = b.y - unit]

move_k(b, unit) == [b EXCEPT !.x = b.x - unit, !.y = b.y + 2 * unit]

move_j(b, unit) == [b EXCEPT !.x = b.x + unit, !.y = b.y + unit]

\* A call on a coordinate object yields [self, ret, alias]: the value the
\* receiver holds afterwards, the value returned, and whether the returned
\* reference is the receiver itself.

\* Hex.move_i / move_j / move_k, also inherited by Block: no value returned
Hex_move(h, axis, unit) ==
    [self |-> CASE axis = "I" -> move_i(h, unit)
                [] axis = "J" -> move_j(h, unit)
                [] axis = "K" -> move_k(h, unit),
     ret |-> None, alias |-> FALSE]

\* Hex.shift_i / shift_j / shift_k on a plain Hex: a new Hex is returned
Hex_shift(h, axis, unit) ==
    [self |-> h,
     ret |-> CASE axis = "I" -> Hex_shift_i(h, unit)
               [] axis = "J" -> Hex_shift_j(h, unit)
               [] axis = "K" -> Hex_shift_k(h, unit),
     alias |-> FALSE]

\* Block.shift_* returning a moved copy and leaving the receiver alone
Block_shift_fresh(b, axis, unit) ==
    [self |-> b, ret |-> Hex_move(b, axis, unit).self, alias |-> FALSE]

\* Block.shift_i / shift_j / shift_k: self.move_*(unit); return self
Block_shift(b, axis, unit) ==
    LET moved == Hex_move(b, axis, unit).self
    IN [self |-> moved, ret |-> moved, alias |-> TRUE]

\* Block.block(i, k, color): Block.shift_i/shift_k move the new block in place
block(i, k, color) == move_k(move_i(Block(Hex(0, 0), color, FALSE), k), i)

\* Block.__copy__
Block_copy(b) == Block(this(b), b.color, b.state)

\* Block.__add__ with a plain Hex as the other operand
Block_add(b, other) == Block(Hex_add(this(b), other), b.color, b.state)

(***************************************************************************)
(* class Piece: [blocks: the slot list, color]                             *)
(***************************************************************************)
\* Piece.__init__(length, color)
Piece(length, color) ==
    [blocks |-> [n \in 1..(IF length < 1 THEN 1 ELSE length) |-> None],
     color |-> color]

Piece_length(p) == Len(p.blocks)

\* index (0-based) of the first empty slot, or the length when there is none
FirstFree(bs, i) ==
    LET RECURSIVE Scan(_)
        Scan(n) == IF n >= Len(bs) THEN n
                   ELSE IF IsNone(bs[n + 1]) THEN n ELSE Scan(n + 1)
    IN Scan(i)

\* Piece.add_hex(hex): the value returned
add_hex_ok(p, h) == FirstFree(p.blocks, 0) < Piece_length(p)

\* Piece.add_hex(hex) with a plain Hex: the piece afterwards
add_hex(p, h) ==
    LET i == FirstFree(p.blocks, 0)
        made == block(get_line_i(h), get_line_k(h), p.color)
    IN IF i < Piece_length(p)
       THEN [p EXCEPT !.blocks[i + 1] = [made EXCEPT !.color = p.color, !.state = TRUE]]
       ELSE p

\* the loop test of Piece._sort: slot j is empty or lies after key
SortAfter(slot, key) ==
    \/ IsNone(slot)
    \/ get_line_i(slot) > get_line_i(key)
    \/ (get_line_i(slot) = get_line_i(key) /\ get_line_k(slot) > get_line_k(key))

\* Piece._sort: insertion sort by (line I, line K), empty slots last
Piece_sort(bs) ==
    LET n == Len(bs)
        RECURSIVE Inner(_, _, _)
        \* the while loop: shifts slots right, then stores key at j + 1
        Inner(s, j, key) ==
            IF j >= 0 /\ SortAfter(s[j + 1], key)
            THEN Inner([s EXCEPT ![j + 2] = s[j + 1]], j - 1, key)
            ELSE [s EXCEPT ![j + 2] = key]
        RECURSIVE Outer(_, _)
        Outer(s, i) ==
            IF i >= n THEN s
            ELSE IF IsNone(s[i + 1])
                 THEN Outer([s EXCEPT ![i + 1] = s[i + 1]], i + 1)
                 ELSE Outer(Inner(s, i - 1, s[i + 1]), i + 1)
    IN Outer(bs, 1)

\* Piece.blocks(): sorted, the empty slots replaced by unoccupied dummies
Piece_blocks(p) ==
    LET s == Piece_sort(p.blocks)
    IN [n \in 1..Len(s) |->
          IF IsNone(s[n]) THEN Block(Hex(0, 0), p.color, FALSE) ELSE s[n]]

\* Piece.get_block(hex): the first slot with the line coordinates of hex
Piece_get_block(p, h) ==
    LET RECURSIVE Scan(_)
        Scan(n) ==
            IF n > Len(p.blocks) THEN None
            ELSE IF /\ ~IsNone(p.blocks[n])
                    /\ get_line_i(p.blocks[n]) = get_line_i(h)
                    /\ get_line_k(p.blocks[n]) = get_line_k(h)
                 THEN p.blocks[n]
                 ELSE Scan(n + 1)
    IN Scan(1)

\* Piece.get_state(hex)
Piece_get_state(p, h) ==
    LET b == Piece_get_block(p, h) IN (~IsNone(b)) /\ b.state

\* Piece.in_range(hex)
Piece_in_range(p, h) == ~IsNone(Piece_get_block(p, h))

\* Python's data >> n & 1 for data >= 0
Bit(data, n) == (data \div (2 ^ n)) % 2

\* bin(data).count("1") for data >= 0
CountOnes(data) ==
    LET RECURSIVE Ones(_)
        Ones(d) == IF d = 0 THEN 0 ELSE (d % 2) + Ones(d \div 2)
    IN Ones(data)

\* the seven positions of the standard piece, from bit 6 down to bit 0
BytePositions ==
    << hex(-1, -1), hex(-1, 0), hex(0, -1), hex(0, 0), hex(0, 1), hex(1, 0), hex(1, 1) >>

\* to_byte reading position (1, 0) before position (0, 1)
to_byte_swapped(p) ==
    LET order == << 1, 2, 3, 4, 6, 5, 7 >>
        RECURSIVE Shift(_, _)
        Shift(data, n) ==
            IF n > 7 THEN data
            ELSE Shift((IF n = 1 THEN data ELSE data * 2)
                         + (IF Piece_get_state(p, BytePositions[order[n]]) THEN 1 ELSE 0),
                       n + 1)
    IN Shift(0, 1) % 128

\* Piece.to_byte()
to_byte(p) ==
    LET RECURSIVE Shift(_, _)
        \* data after the test of position n and the shifts before it
        Shift(data, n) ==
            IF n > 7 THEN data
            ELSE Shift((IF n = 1 THEN data ELSE data * 2)
                         + (IF Piece_get_state(p, BytePositions[n]) THEN 1 ELSE 0),
                       n + 1)
    IN Shift(0, 1) % 128

\* Piece.piece_from_byte(data, color): [raised, piece]
piece_from_byte(data, color) ==
    IF data < 0 THEN [raised |-> TRUE, piece |-> None]
    ELSE IF data = 0 THEN [raised |-> TRUE, piece |-> None]
    ELSE
      LET RECURSIVE Fill(_, _)
          Fill(p, n) ==
              IF n > 7 THEN p
              ELSE Fill(IF Bit(data, 7 - n) = 1 THEN add_hex(p, BytePositions[n]) ELSE p,
                        n + 1)
      IN [raised |-> FALSE, piece |-> Fill(Piece(CountOnes(data), color), 1)]

\* Piece.__eq__(piece): [raised, ret, a, b] with a and b the two slot lists
\* afterwards.  Comparing a Block with None raises AttributeError in
\* Hex.__eq__ (None has no __i__), whichever side None is on.
Piece_eq(p, q) ==
    IF Piece_length(q) # Piece_length(p)
    THEN [raised |-> FALSE, ret |-> FALSE, a |-> p.blocks, b |-> q.blocks]
    ELSE
      LET a == Piece_sort(p.blocks)
          b == Piece_sort(q.blocks)
          RECURSIVE Walk(_)
          Walk(i) ==
              IF i >= Len(a) THEN [raised |-> FALSE, ret |-> TRUE]
              ELSE IF IsNone(a[i + 1]) /\ IsNone(b[i + 1]) THEN Walk(i + 1)
              ELSE IF IsNone(a[i + 1]) \/ IsNone(b[i + 1])
                   THEN [raised |-> TRUE, ret |-> FALSE]
              ELSE IF ~Hex_eq(a[i + 1], b[i + 1]) THEN [raised |-> FALSE, ret |-> FALSE]
              ELSE Walk(i + 1)
          r == Walk(0)
      IN [raised |-> r.raised, ret |-> r.ret, a |-> a, b |-> b]

(***************************************************************************)
(* class HexEngine: radius r and the block list bs                         *)
(***************************************************************************)
\* HexEngine.__init__: the size of the block list, 1 + 3*r*(r-1)
ArraySize(r) == 1 + 3 * r * (r - 1)

\* HexEngine.__init__ before its loops: the list holds placeholders only
CtorStart(r) ==
    [r |-> r, a |-> 0, b |-> 0, index |-> 0,
     blocks |-> [n \in 1..ArraySize(r) |-> Block(Hex(0, 0), DefaultColor, FALSE)],
     pc |-> IF r * 2 > 0 THEN "loop" ELSE "done"]

\* HexEngine.__init__: one pass of the inner loop body, for (c.a, c.b).
\* Storing past the end of the list is Python's IndexError.
CtorStep(c) ==
    LET made == move_k(move_i(Block(Hex(0, 0), DefaultColor, FALSE), c.b), c.a)
        keep == Hex_in_range(made, c.r)
        nb == IF c.b + 1 < c.r * 2 THEN c.b + 1 ELSE 0
        na == IF c.b + 1 < c.r * 2 THEN c.a ELSE c.a + 1
    IN IF keep /\ c.index >= Len(c.blocks)
       THEN [c EXCEPT !.pc = "IndexError"]
       ELSE [c EXCEPT !.blocks = IF keep THEN [c.blocks EXCEPT ![c.index + 1] = made]
                                  ELSE c.blocks,
                      !.index = IF keep THEN c.index + 1 ELSE c.index,
                      !.a = na, !.b = nb,
                      !.pc = IF na < c.r * 2 THEN "loop" ELSE "done"]

\* HexEngine.__init__(radius): the block list of the new engine
HexEngine_init(r) ==
    LET RECURSIVE Run(_)
        Run(c) == IF c.pc = "loop" THEN Run(CtorStep(c)) ELSE c
    IN Run(CtorStart(r)).blocks

\* HexEngine.reset()
reset(bs) == [n \in 1..Len(bs) |-> Block(bs[n], DefaultColor, FALSE)]

\* HexEngine.in_range(hex)
HexEngine_in_range(r, h) == Hex_in_range(h, r)

\* _search with the K comparison made without regard to the I line
RECURSIVE search_k_alone(_, _, _, _, _)
search_k_alone(bs, i, k, start, end) ==
    IF start > end THEN -1
    ELSE LET mid == (start + end) \div 2
             blk == bs[mid + 1]
         IN IF get_line_i(blk) = i /\ get_line_k(blk) = k THEN mid
            ELSE IF get_line_i(blk) < i \/ get_line_k(blk) < k
                 THEN search_k_alone(bs, i, k, mid + 1, end)
                 ELSE search_k_alone(bs, i, k, start, mid - 1)

\* HexEngine._search(i, k, start, end): the index found, or -1
RECURSIVE search(_, _, _, _, _)
search(bs, i, k, start, end) ==
    IF start > end THEN -1
    ELSE LET mid == (start + end) \div 2
             blk == bs[mid + 1]
         IN IF get_line_i(blk) = i /\ get_line_k(blk) = k THEN mid
            ELSE IF \/ get_line_i(blk) < i
                    \/ (get_line_i(blk) = i /\ get_line_k(blk) < k)
                 THEN search(bs, i, k, mid + 1, end)
                 ELSE search(bs, i, k, start, mid - 1)

\* HexEngine.get_block(hex)
HexEngine_get_block(bs, r, h) ==
    IF HexEngine_in_range(r, h)
    THEN LET index == search(bs, get_line_i(h), get_line_k(h), 0, Len(bs) - 1)
         IN IF index >= 0 THEN bs[index + 1] ELSE None
    ELSE None

\* set_block storing the block in the colour set_state gives an occupied cell
set_block_filled_color(bs, r, h, blk) ==
    IF HexEngine_in_range(r, h)
    THEN LET index == search(bs, get_line_i(h), get_line_k(h), 0, Len(bs) - 1)
         IN IF index >= 0 THEN [bs EXCEPT ![index + 1] = [blk EXCEPT !.color = FilledColor]]
            ELSE bs
    ELSE bs

\* HexEngine.set_block(hex, block): the block list afterwards
set_block(bs, r, h, blk) ==
    IF HexEngine_in_range(r, h)
    THEN LET index == search(bs, get_line_i(h), get_line_k(h), 0, Len(bs) - 1)
         IN IF index >= 0 THEN [bs EXCEPT ![index + 1] = blk] ELSE bs
    ELSE bs

\* HexEngine.set_state(hex, state): the block list afterwards
set_state(bs, r, h, state) ==
    IF HexEngine_in_range(r, h)
    THEN LET index == search(bs, get_line_i(h), get_line_k(h), 0, Len(bs) - 1)
         IN IF index >= 0 /\ bs[index + 1].state # state
            THEN [bs EXCEPT ![index + 1].state = state,
                            ![index + 1].color = IF state THEN FilledColor ELSE EmptyColor]
            ELSE bs
    ELSE bs

\* check_add without the test of the target's occupancy
check_add_range_only(bs, r, origin, other) ==
    LET pbs == Piece_blocks(other)
        RECURSIVE Walk(_)
        Walk(n) ==
            IF n > Len(pbs) THEN TRUE
            ELSE IF pbs[n].state
                 THEN LET placed_block == Block_add(pbs[n], origin)
                          target == HexEngine_get_block(bs, r, placed_block)
                      IN IF IsNone(target) THEN FALSE ELSE Walk(n + 1)
                 ELSE Walk(n + 1)
    IN Walk(1)

\* HexEngine.check_add(origin, other) for a Piece
check_add(bs, r, origin, other) ==
    LET pbs == Piece_blocks(other)
        RECURSIVE Walk(_)
        Walk(n) ==
            IF n > Len(pbs) THEN TRUE
            ELSE IF pbs[n].state
                 THEN LET placed_block == Block_add(pbs[n], origin)
                          target == HexEngine_get_block(bs, r, placed_block)
                      IN IF IsNone(target) \/ target.state THEN FALSE ELSE Walk(n + 1)
                 ELSE Walk(n + 1)
    IN Walk(1)

\* add storing the block of the piece as it stands in the piece, untranslated
add_untranslated(bs, r, origin, other) ==
    LET pbs == Piece_blocks(other)
        RECURSIVE Walk(_, _)
        Walk(cur, n) ==
            IF n > Len(pbs) THEN [raised |-> FALSE, blocks |-> cur]
            ELSE IF pbs[n].state
                 THEN LET placed_block == Block_add(pbs[n], origin)
                          target == HexEngine_get_block(cur, r, placed_block)
                      IN IF IsNone(target) THEN [raised |-> TRUE, blocks |-> cur]
                         ELSE IF target.state THEN [raised |-> TRUE, blocks |-> cur]
                         ELSE Walk(set_block(cur, r, placed_block, pbs[n]), n + 1)
                 ELSE Walk(cur, n + 1)
    IN Walk(bs, 1)

\* HexEngine.add(origin, other) for a Piece: [raised, blocks], blocks being
\* the block list when the call returns or raises ValueError
add(bs, r, origin, other) ==
    LET pbs == Piece_blocks(other)
        RECURSIVE Walk(_, _)
        Walk(cur, n) ==
            IF n > Len(pbs) THEN [raised |-> FALSE, blocks |-> cur]
            ELSE IF pbs[n].state
                 THEN LET placed_block == Block_add(pbs[n], origin)
                          target == HexEngine_get_block(cur, r, placed_block)
                      IN IF IsNone(target) THEN [raised |-> TRUE, blocks |-> cur]
                         ELSE IF target.state THEN [raised |-> TRUE, blocks |-> cur]
                         ELSE Walk(set_block(cur, r, placed_block, placed_block), n + 1)
                 ELSE Walk(cur, n + 1)
    IN Walk(bs, 1)

\* the (0-based) indexes, in list order, of the blocks of bs on line v of axis
LineOf(bs, axis, v) ==
    LET on(b) == CASE axis = "I" -> get_line_i(b) = v
                   [] axis = "J" -> get_line_j(b) = v
                   [] axis = "K" -> get_line_k(b) = v
        RECURSIVE Pick(_)
        Pick(n) == IF n > Len(bs) THEN << >>
                   ELSE (IF on(bs[n]) THEN << n - 1 >> ELSE << >>) \o Pick(n + 1)
    IN Pick(1)

\* all(b.get_state() for b in line)
AllOccupied(bs, line) == \A n \in 1..Len(line) : bs[line[n] + 1].state

\* HexEngine.eliminate, one axis loop: the lines from..to of axis that are
\* fully occupied, appended in turn
FullLines(bs, axis, from, to) ==
    LET RECURSIVE Scan(_)
        Scan(v) ==
            IF v > to THEN << >>
            ELSE LET line == LineOf(bs, axis, v)
                 IN (IF AllOccupied(bs, line) THEN line ELSE << >>) \o Scan(v + 1)
    IN Scan(from)

\* the list `eliminate` without the loop over the K lines
EliminateList_no_k(bs, r) ==
    FullLines(bs, "I", 0, r * 2 - 2)
      \o FullLines(bs, "J", 1 - r, r - 1)

\* HexEngine.eliminate(): the list `eliminate` of block objects to clear
\* (one entry per full line the block is on), as indexes into bs
EliminateList(bs, r) ==
    FullLines(bs, "I", 0, r * 2 - 2)
      \o FullLines(bs, "J", 1 - r, r - 1)
      \o FullLines(bs, "K", 0, r * 2 - 2)

\* eliminate returning the copies of the blocks listed, set_state not called
eliminate_report_only(bs, r) ==
    LET todo == EliminateList(bs, r)
    IN [blocks |-> bs,
        ret |-> [m \in 1..Len(todo) |-> Block_copy(bs[todo[m] + 1])]]

\* HexEngine.eliminate(): [blocks, ret], the block list afterwards and the
\* list returned.  The last loop takes the entries of `eliminate` in turn:
\* each is copied as the object then is, and then cleared by set_state; an
\* entry listed before has been cleared when it is copied again.
eliminate(bs, r) ==
    LET todo == EliminateList(bs, r)
        \* the block of slot index once set_state(block, False) has run on it
        Cleared(index) == set_state(bs, r, bs[index + 1], FALSE)[index + 1]
        Listed(index, upto) == \E m \in 1..upto : todo[m] = index
    IN [blocks |-> [n \in 1..Len(bs) |->
                      IF Listed(n - 1, Len(todo)) THEN Cleared(n - 1) ELSE bs[n]],
        ret |-> [m \in 1..Len(todo) |->
                   Block_copy(IF Listed(todo[m], m - 1) THEN Cleared(todo[m])
                              ELSE bs[todo[m] + 1])]]

\* HexEngine.check_eliminate_i(i): all(...) over the blocks of line i
check_eliminate_i(bs, i) == \A n \in 1..Len(bs) : get_line_i(bs[n]) = i => bs[n].state

\* HexEngine.check_eliminate_j(j)
check_eliminate_j(bs, j) == \A n \in 1..Len(bs) : get_line_j(bs[n]) = j => bs[n].state

\* HexEngine.check_eliminate_k(k)
check_eliminate_k(bs, k) == \A n \in 1..Len(bs) : get_line_k(bs[n]) = k => bs[n].state

\* HexEngine.check_eliminate(): some line of the three loops is full
check_eliminate(bs, r) ==
    \/ \E i \in 0..(r * 2 - 2) : check_eliminate_i(bs, i)
    \/ \E j \in (1 - r)..(r - 1) : check_eliminate_j(bs, j)
    \/ \E k \in 0..(r * 2 - 2) : check_eliminate_k(bs, k)

\* check_positions listing every cell of the board, check_add not asked
check_positions_every_cell(bs, r, other) == [n \in 1..Len(bs) |-> this(bs[n])]

\* HexEngine.check_positions(other): the origins, in list order
check_positions(bs, r, other) ==
    LET RECURSIVE Walk(_)
        Walk(n) ==
            IF n > Len(bs) THEN << >>
            ELSE LET hex_coord == this(bs[n])
                 IN (IF check_add(bs, r, hex_coord, other) THEN << hex_coord >> ELSE << >>)
                      \o Walk(n + 1)
    IN Walk(1)

\* HexGrid.count_neighbors: the six neighbours as offsets of (line I, line K)
NeighborOffsets ==
    << << -1, -1 >>, << -1, 0 >>, << 0, -1 >>, << 0, 1 >>, << 1, 0 >>, << 1, 1 >> >>

\* HexGrid.count_neighbors(hex, include_null) with the engine as self
HexEngine_count_neighbors(bs, r, h, include_null) ==
    IF HexEngine_in_range(r, h)
    THEN LET RECURSIVE Count(_)
             Count(n) ==
                 IF n > Len(NeighborOffsets) THEN 0
                 ELSE LET n_hex == hex(get_line_i(h) + NeighborOffsets[n][1],
                                       get_line_k(h) + NeighborOffsets[n][2])
                          one == IF HexEngine_in_range(r, n_hex)
                                 THEN LET blk == HexEngine_get_block(bs, r, n_hex)
                                      IN IF (~IsNone(blk)) /\ blk.state THEN 1 ELSE 0
                                 ELSE IF include_null THEN 1 ELSE 0
                      IN one + Count(n + 1)
         IN Count(1)
    ELSE 0

\* HexGrid.count_neighbors(hex, include_null) with a piece as self
Piece_count_neighbors(p, h, include_null) ==
    IF Piece_in_range(p, h)
    THEN LET RECURSIVE Count(_)
             Count(n) ==
                 IF n > Len(NeighborOffsets) THEN 0
                 ELSE LET n_hex == hex(get_line_i(h) + NeighborOffsets[n][1],
                                       get_line_k(h) + NeighborOffsets[n][2])
                          one == IF Piece_in_range(p, n_hex)
                                 THEN LET blk == Piece_get_block(p, n_hex)
                                      IN IF (~IsNone(blk)) /\ blk.state THEN 1 ELSE 0
                                 ELSE IF include_null THEN 1 ELSE 0
                      IN one + Count(n + 1)
         IN Count(1)
    ELSE 0

\* a float that is the quotient of two integers, kept as [num, den]
Zero == [num |-> 0, den |-> 1]

\* compute_dense_index with total_possible assigned, not accumulated, at each
\* cell of the piece
compute_dense_index_possible_of_last(bs, r, origin, other) ==
    LET pbs == Piece_blocks(other)
        RECURSIVE Walk(_, _, _)
        Walk(n, total_possible, total_populated) ==
            IF n > Len(pbs)
            THEN IF total_possible > 0
                 THEN [num |-> total_populated, den |-> total_possible]
                 ELSE Zero
            ELSE IF pbs[n].state
                 THEN LET placed_block == Block_add(pbs[n], origin)
                          target == HexEngine_get_block(bs, r, placed_block)
                      IN IF IsNone(target) THEN Zero
                         ELSE IF target.state THEN Zero
                         ELSE Walk(n + 1,
                                   6 - Piece_count_neighbors(other, placed_block, FALSE),
                                   total_populated
                                     + HexEngine_count_neighbors(bs, r, placed_block, TRUE))
                 ELSE Walk(n + 1, total_possible, total_populated)
    IN Walk(1, 0, 0)

\* HexEngine.compute_dense_index(origin, other): total_populated / total_possible
compute_dense_index(bs, r, origin, other) ==
    LET pbs == Piece_blocks(other)
        RECURSIVE Walk(_, _, _)
        Walk(n, total_possible, total_populated) ==
            IF n > Len(pbs)
            THEN IF total_possible > 0
                 THEN [num |-> total_populated, den |-> total_possible]
                 ELSE Zero
            ELSE IF pbs[n].state
                 THEN LET placed_block == Block_add(pbs[n], origin)
                          target == HexEngine_get_block(bs, r, placed_block)
                      IN IF IsNone(target) THEN Zero
                         ELSE IF target.state THEN Zero
                         ELSE Walk(n + 1,
                                   total_possible
                                     + 6 - Piece_count_neighbors(other, placed_block, FALSE),
                                   total_populated
                                     + HexEngine_count_neighbors(bs, r, placed_block, TRUE))
                 ELSE Walk(n + 1, total_possible, total_populated)
    IN Walk(1, 0, 0)

\* HexEngine._get_pattern(hex, include_null): the 7-bit pattern
get_pattern(bs, r, h, include_null) ==
    LET around == << Hex_shift_j(h, -1), Hex_shift_i(h, -1), Hex_shift_k(h, -1), h,
                     Hex_shift_k(h, 1), Hex_shift_i(h, 1), Hex_shift_j(h, 1) >>
        bit(c) == IF HexEngine_in_range(r, c)
                  THEN IF HexEngine_get_block(bs, r, c).state THEN 1 ELSE 0
                  ELSE IF include_null THEN 1 ELSE 0
        RECURSIVE Shift(_, _)
        Shift(pattern, n) ==
            IF n > 7 THEN pattern
            ELSE Shift((IF n = 1 THEN pattern ELSE pattern * 2) + bit(around[n]), n + 1)
    IN Shift(0, 1)

\* HexEngine.compute_entropy: the test that selects the blocks sampled
Sampled(b, r) == Hex_in_range(Hex_shift_j(this(b), 1), r - 1)

\* HexEngine.compute_entropy(): the tally its first loop leaves, as
\* [pattern_total, pattern_counts]; pattern_counts[p + 1] counts pattern p.
\* The float returned is the sum, over the patterns of count > 0 in this
\* order, of -(count / pattern_total) * log2(count / pattern_total).
compute_entropy(bs, r) ==
    LET RECURSIVE Tally(_, _, _)
        Tally(n, pattern_total, pattern_counts) ==
            IF n > Len(bs)
            THEN [pattern_total |-> pattern_total, pattern_counts |-> pattern_counts]
            ELSE IF Sampled(bs[n], r)
                 THEN LET pat == get_pattern(bs, r, this(bs[n]), FALSE)
                      IN Tally(n + 1, pattern_total + 1,
                               [pattern_counts EXCEPT ![pat + 1] = @ + 1])
                 ELSE Tally(n + 1, pattern_total, pattern_counts)
    IN Tally(1, 0, [p \in 1..128 |-> 0])

\* the copy sharing every Block object with the engine copied
HexEngine_copy_shared(bs) ==
    [blocks |-> bs, shared |-> [n \in 1..Len(bs) |-> TRUE]]

\* HexEngine.__copy__ / __deepcopy__: [blocks, shared], the block list of
\* the new engine and, slot by slot, whether the Block object in it is the
\* object in the same slot of the engine copied
HexEngine_copy(bs) ==
    [blocks |-> [n \in 1..Len(bs) |-> Block_copy(bs[n])],
     shared |-> [n \in 1..Len(bs) |-> FALSE]]

\* HexEngine.compute_entropy_index(origin, other): [raised, self, copy, now,
\* after].  add replaces slots of the copy by new Block objects; eliminate
\* changes Block objects in place, so a slot of the copy still holding an
\* object of self changes that object.  The float returned is
\* 1 / (1 + exp(-3 * (entropy of after - entropy of now - 0.21))).
compute_entropy_index(bs, r, origin, other) ==
    LET Scored(self, copy) ==
            [raised |-> FALSE, self |-> self, copy |-> copy,
             now |-> compute_entropy(self, r), after |-> compute_entropy(copy, r)]
        Eliminated(copy_engine, added, cleared) ==
            Scored([n \in 1..Len(bs) |->
                      IF /\ copy_engine.shared[n]
                         /\ added[n] = copy_engine.blocks[n]
                         /\ cleared[n] # added[n]
                      THEN cleared[n] ELSE bs[n]],
                   cleared)
        Added(copy_engine, added) ==
            IF added.raised
            THEN [raised |-> TRUE, self |-> bs, copy |-> added.blocks,
                  now |-> None, after |-> None]
            ELSE Eliminated(copy_engine, added.blocks, eliminate(added.blocks, r).blocks)
        Copied(copy_engine) ==
            Added(copy_engine, add(copy_engine.blocks, r, origin, other))
    IN Copied(HexEngine_copy(bs))

(***************************************************************************)
(* The heuristics of algos.py, nrminimax_autoplayimpl.py and autoplay.py.  *)
(* A heuristic yields [exc, index, origin, options]: the name of the       *)
(* exception raised ("" when it returns), the placement returned and the   *)
(* candidate list as it stood when the call ended.  A candidate is the     *)
(* tuple << piece_index, coord >>, followed by its score where the         *)
(* heuristic scores.                                                       *)
(***************************************************************************)
Raised(exc, options) ==
    [exc |-> exc, index |-> 0, origin |-> None, options |-> options]

Returned(option, options) ==
    [exc |-> "", index |-> option[1], origin |-> option[2], options |-> options]

\* int(piece): class Piece defines no __int__, so Python raises TypeError
Piece_int(piece) == [exc |-> "TypeError", value |-> 0]

\* key = piece.to_byte()
Piece_to_byte(piece) == [exc |-> "", value |-> to_byte(piece)]

\* the body of the inner loop of random and of alg: nothing but the append
NoScore(coord, piece) == [exc |-> "", item |-> << >>]

\* the body of the inner loop of nrsearch: len(piece) raises TypeError, class
\* Piece defining no __len__
nrsearch_score(coord, piece) == [exc |-> "TypeError", item |-> << Zero >>]

\* the body of the inner loop of nrminimax: copy_engine.add_piece raises
\* AttributeError, class HexEngine defining no add_piece
nrminimax_score(coord, piece) == [exc |-> "AttributeError", item |-> << Zero >>]

\* the body of the inner loop of algorithm: engine.compute_weighted_index
\* raises AttributeError, class HexEngine defining no compute_weighted_index
algorithm_score(coord, piece) == [exc |-> "AttributeError", item |-> << Zero >>]

\* nrminimax: x = copy_engine.compute_entropy() - w_current_entropy, where
\* w_current_entropy = engine.compute_entropy() - 0.21: the constant added to
\* (entropy after - entropy now) in the logistic argument, in hundredths
nrminimax_shift == 21

\* compute_entropy_index: x = copy_engine.compute_entropy()
\* - self.compute_entropy() - 0.21: the same constant, in hundredths
compute_entropy_index_shift == -21

\* key = int(piece) in random, nrminimax and nrsearch; key = piece.to_byte()
\* in algorithm and alg
KeyOf(name, piece) ==
    IF name \in {"algorithm", "alg"} THEN Piece_to_byte(piece) ELSE Piece_int(piece)

\* the body of the inner loop of heuristic name
BodyOf(name, coord, piece) ==
    CASE name = "nrminimax" -> nrminimax_score(coord, piece)
      [] name = "nrsearch" -> nrsearch_score(coord, piece)
      [] name = "algorithm" -> algorithm_score(coord, piece)
      [] OTHER -> NoScore(coord, piece)

\* the loop over the queue that random, nrminimax, nrsearch, algorithm and
\* alg share: a piece whose key has been seen is skipped; for every origin of
\* check_positions(piece), in order, Body is evaluated and the candidate
\* appended.  [exc, options]: exc names the exception that ended the loop.
Enumerate(bs, r, q, name) ==
    LET RECURSIVE Inner(_, _, _, _)
        RECURSIVE Outer(_, _, _)
        \* options.append(...) once the body of the inner loop has run as body
        Appended(body, positions, m, piece_index, options) ==
            IF body.exc # "" THEN [exc |-> body.exc, options |-> options]
            ELSE Inner(positions, m + 1, piece_index,
                       Append(options, << piece_index, positions[m] >> \o body.item))
        \* for coord in engine.check_positions(piece)
        Inner(positions, m, piece_index, options) ==
            IF m > Len(positions) THEN [exc |-> "", options |-> options]
            ELSE Appended(BodyOf(name, positions[m], q[piece_index + 1]),
                          positions, m, piece_index, options)
        \* the next piece once the inner loop has ended as inner
        Listed(inner, key, piece_index, seen_pieces) ==
            IF inner.exc # "" THEN inner
            ELSE Outer(piece_index + 1, seen_pieces \cup {key.value}, inner.options)
        \* the piece of key key: skipped if seen, else its positions listed
        Keyed(key, piece_index, seen_pieces, options) ==
            IF key.exc # "" THEN [exc |-> key.exc, options |-> options]
            ELSE IF key.value \in seen_pieces
                 THEN Outer(piece_index + 1, seen_pieces, options)
            ELSE Listed(Inner(check_positions(bs, r, q[piece_index + 1]), 1,
                              piece_index, options),
                        key, piece_index, seen_pieces)
        \* for piece_index, piece in enumerate(queue)
        Outer(piece_index, seen_pieces, options) ==
            IF piece_index >= Len(q) THEN [exc |-> "", options |-> options]
            ELSE Keyed(KeyOf(name, q[piece_index + 1]), piece_index, seen_pieces, options)
    IN Outer(0, {}, << >>)

\* max(options, key=lambda item: item[2]): the first candidate of the
\* greatest score; the scores are quotients [num, den]
MaxByScore(options) ==
    LET Less(a, b) == a.num * b.den < b.num * a.den
        RECURSIVE Scan(_, _)
        Scan(n, best) ==
            IF n > Len(options) THEN best
            ELSE Scan(n + 1, IF Less(options[best][3], options[n][3]) THEN n ELSE best)
    IN options[Scan(2, 1)]

\* the outcome `return rd.choice(options)`: the caller of the heuristic
\* gets one of options, whichever the generator draws
Drawn(options) ==
    [exc |-> "", index |-> -1, origin |-> None, options |-> options]

\* algos.random(engine, queue)
random(bs, r, q) ==
    LET Ended(e) ==
            IF e.exc # "" THEN Raised(e.exc, e.options)
            ELSE IF e.options = << >> THEN Raised("ValueError", e.options)
            ELSE Drawn(e.options)
    IN IF q = << >> THEN Raised("ValueError", << >>)
       ELSE Ended(Enumerate(bs, r, q, "random"))

\* first returning the first cell of the board for the first piece, without
\* asking check_positions
first_any_origin(bs, r, q) ==
    IF q = << >> THEN Raised("ValueError", << >>)
    ELSE Returned(<< 0, this(bs[1]) >>, << >>)

\* algos.first(engine, queue)
first(bs, r, q) ==
    IF q = << >> THEN Raised("ValueError", << >>)
    ELSE LET RECURSIVE Walk(_)
             Walk(piece_index) ==
                 IF piece_index >= Len(q) THEN Raised("ValueError", << >>)
                 ELSE LET positions == check_positions(bs, r, q[piece_index + 1])
                      IN IF positions # << >>
                         THEN Returned(<< piece_index, positions[1] >>, << >>)
                         ELSE Walk(piece_index + 1)
         IN Walk(0)

\* algos.nrminimax(engine, queue)
nrminimax(bs, r, q) ==
    LET Ended(e) ==
            IF e.exc # "" THEN Raised(e.exc, e.options)
            ELSE IF e.options = << >> THEN Raised("ValueError", e.options)
            ELSE Returned(MaxByScore(e.options), e.options)
    IN Ended(Enumerate(bs, r, q, "nrminimax"))

\* algos.nrsearch(engine, queue)
nrsearch(bs, r, q) ==
    LET Ended(e) ==
            IF e.exc # "" THEN Raised(e.exc, e.options)
            ELSE IF e.options = << >> THEN Raised("ValueError", e.options)
            ELSE Returned(MaxByScore(e.options), e.options)
    IN Ended(Enumerate(bs, r, q, "nrsearch"))

\* nrminimax_autoplayimpl.algorithm(engine, queue): max of an empty list
\* raises ValueError
algorithm(bs, r, q) ==
    LET Ended(e) ==
            IF e.exc # "" THEN Raised(e.exc, e.options)
            ELSE IF e.options = << >> THEN Raised("ValueError", e.options)
            ELSE Returned(MaxByScore(e.options), e.options)
    IN Ended(Enumerate(bs, r, q, "algorithm"))

\* alg with the test of seen_pieces left out
alg_every_piece(bs, r, q) ==
    IF q = << >> THEN Raised("ValueError", << >>)
    ELSE LET RECURSIVE Outer(_)
             Outer(piece_index) ==
                 IF piece_index >= Len(q) THEN << >>
                 ELSE LET positions == check_positions(bs, r, q[piece_index + 1])
                      IN [m \in 1..Len(positions) |-> << piece_index, positions[m] >>]
                           \o Outer(piece_index + 1)
             options == Outer(0)
         IN IF options = << >> THEN Raised("ValueError", options)
            ELSE Drawn(options)

\* autoplay.alg(engine, queue), the heuristic autoplay.py defines when it
\* can import no other
alg(bs, r, q) ==
    LET Ended(e) ==
            IF e.exc # "" THEN Raised(e.exc, e.options)
            ELSE IF e.options = << >> THEN Raised("ValueError", e.options)
            ELSE Drawn(e.options)
    IN IF q = << >> THEN Raised("ValueError", << >>)
       ELSE Ended(Enumerate(bs, r, q, "alg"))

(***************************************************************************)
(* The board specification: one engine, driven by a single-threaded        *)
(* caller.  A call runs to its end in one step and leaves in last its      *)
(* arguments, its outcome and, for add, eliminate and reset, the block     *)
(* list as it was before the call; the caller takes the outcome (Return)   *)
(* before the next call.                                                   *)
(***************************************************************************)
\* the colours of the pieces offered
Colors == {1, 2}

\* the pieces offered to the engine, each built by the Piece constructors
Queue ==
    << piece_from_byte(8, 1).piece,                          \* (0,0)
       piece_from_byte(12, 2).piece,                         \* (0,0) (0,1)
       piece_from_byte(10, 1).piece,                         \* (0,0) (1,0)
       piece_from_byte(9, 2).piece,                          \* (0,0) (1,1)
       piece_from_byte(13, 1).piece,                         \* (0,0) (0,1) (1,1)
       piece_from_byte(127, 2).piece,                        \* all seven
       add_hex(Piece(2, 1), hex(0, 0)),                      \* one slot empty
       add_hex(add_hex(Piece(2, 2), hex(0, 0)), hex(0, 0)),   \* (0,0) twice
       piece_from_byte(1, 1).piece >>                        \* (1,1)

\* the origins and coordinates handed to an engine of radius r: the board
\* and a ring around it
Coords(r) == { hex(i, k) : i \in -1..(r * 2 - 1), k \in -1..(r * 2 - 1) }

\* last when no call has been made or its outcome has been taken
Idle ==
    [op |-> "idle", origin |-> Hex(0, 0), piece |-> 0, raised |-> FALSE, ret |-> << >>,
     before |-> << >>]

\* last after a call: its arguments, whether it raised, what it returned and,
\* for a call that may change the board, the block list as it was before
Called(op, origin, piece, raised, ret, before) ==
    [op |-> op, origin |-> origin, piece |-> piece, raised |-> raised, ret |-> ret,
     before |-> before]

\* the values the variables of the other specifications hold meanwhile
CtorParked == ctor = CtorStart(1)

ConvParked == conv = [pc |-> "start", data |-> 0, color |-> 0, piece |-> None, out |-> 0]

EqParked ==
    /\ pieceA = Piece(1, 0)
    /\ pieceB = Piece(1, 0)
    /\ cmp = [op |-> "none", raised |-> FALSE, ret |-> FALSE]

ObjParked == obj = [kind |-> "Hex", cur |-> Hex(0, 0), op |-> "init", axis |-> "I", i |-> 0, k |-> 0, unit |-> 0, before |-> Hex(0, 0), ret |-> None, alias |-> FALSE]

QueueParked == queue = << >>

BoardParked ==
    /\ radius = 1
    /\ blocks = HexEngine_init(1)
    /\ ops = 0
    /\ last = Idle

Init ==
    /\ radius \in 1..MaxRadius
    /\ blocks = HexEngine_init(radius)
    /\ ops = 0
    /\ last = Idle
    /\ CtorParked /\ ConvParked /\ EqParked /\ ObjParked /\ QueueParked

\* engine.add(origin, Queue[q])
Add(origin, q) ==
    /\ last.op = "idle" /\ ops < MaxOps
    /\ LET res == add(blocks, radius, origin, Queue[q])
       IN /\ blocks' = res.blocks
          /\ last' = Called("add", origin, q, res.raised, << >>, blocks)
    /\ ops' = ops + 1
    /\ UNCHANGED <<obj, queue, radius, ctor, conv, pieceA, pieceB, cmp>>

\* engine.eliminate()
Eliminate ==
    /\ last.op = "idle" /\ ops < MaxOps
    /\ LET res == eliminate(blocks, radius)
       IN /\ blocks' = res.blocks
          /\ last' = Called("eliminate", Hex(0, 0), 0, FALSE, res.ret, blocks)
    /\ ops' = ops + 1
    /\ UNCHANGED <<obj, queue, radius, ctor, conv, pieceA, pieceB, cmp>>

\* engine.reset()
Reset ==
    /\ last.op = "idle" /\ ops < MaxOps
    /\ blocks' = reset(blocks)
    /\ last' = Called("reset", Hex(0, 0), 0, FALSE, << >>, blocks)
    /\ ops' = ops + 1
    /\ UNCHANGED <<obj, queue, radius, ctor, conv, pieceA, pieceB, cmp>>

\* engine.check_add(origin, Queue[q])
CheckAdd(origin, q) ==
    /\ last.op = "idle"
    /\ last' = Called("check_add", origin, q, FALSE,
                    check_add(blocks, radius, origin, Queue[q]), << >>)
    /\ UNCHANGED <<obj, queue, radius, blocks, ops, ctor, conv, pieceA, pieceB, cmp>>

\* engine.get_block(h)
GetBlock(h) ==
    /\ last.op = "idle"
    /\ last' = Called("get_block", h, 0, FALSE,
                    HexEngine_get_block(blocks, radius, h), << >>)
    /\ UNCHANGED <<obj, queue, radius, blocks, ops, ctor, conv, pieceA, pieceB, cmp>>

\* the caller takes the outcome of the call
Return ==
    /\ last.op # "idle"
    /\ last' = Idle
    /\ UNCHANGED <<obj, queue, radius, blocks, ops, ctor, conv, pieceA, pieceB, cmp>>

Next ==
    \/ \E origin \in Coords(radius), q \in 1..Len(Queue) : Add(origin, q)
    \/ Eliminate
    \/ Reset
    \/ \E origin \in Coords(radius), q \in 1..Len(Queue) : CheckAdd(origin, q)
    \/ \E h \in Coords(radius) : GetBlock(h)
    \/ Return

Spec == Init /\ [][Next]_vars

(***************************************************************************)
(* Vocabulary of the statements about the board.                           *)
(***************************************************************************)
\* the line coordinates (I, K) of a coordinate or block
LineIK(h) == << get_line_i(h), get_line_k(h) >>

\* the line coordinates of the occupied cells of piece p
PieceCells(p) ==
    { LineIK(p.blocks[n]) :
        n \in { m \in 1..Len(p.blocks) : ~IsNone(p.blocks[m]) /\ p.blocks[m].state } }

\* the number of occupied slots of piece p
PieceSize(p) ==
    Cardinality({ m \in 1..Len(p.blocks) : ~IsNone(p.blocks[m]) /\ p.blocks[m].state })

\* the cells of p translated by origin
Translated(p, origin) ==
    { << c[1] + get_line_i(origin), c[2] + get_line_k(origin) >> : c \in PieceCells(p) }

\* the positions of bs whose block has line coordinates c
CellsAt(bs, c) == { n \in 1..Len(bs) : LineIK(bs[n]) = c }

\* c is a coordinate of the board bs and its cell is unoccupied
FreeCell(bs, c) == \E n \in CellsAt(bs, c) : ~bs[n].state

\* the number of occupied cells of bs
Occupied(bs) == Cardinality({ n \in 1..Len(bs) : bs[n].state })

\* the range predicate of radius r on line coordinates (i, k)
InRadius(i, k, r) ==
    /\ 0 <= i /\ i < 2 * r - 1
    /\ 0 <= k /\ k < 2 * r - 1
    /\ 0 - r < i - k /\ i - k < r

\* position n of bs lies on an I-, J- or K-line of bs that is fully occupied
OnFullLine(bs, n) ==
    LET i == get_line_i(bs[n])
        k == get_line_k(bs[n])
    IN \/ \A m \in 1..Len(bs) : get_line_i(bs[m]) = i => bs[m].state
       \/ \A m \in 1..Len(bs) : get_line_k(bs[m]) = k => bs[m].state
       \/ \A m \in 1..Len(bs) :
             get_line_i(bs[m]) - get_line_k(bs[m]) = i - k => bs[m].state

(***************************************************************************)
(* C1: if add(origin, piece) raises ValueError, no cell of the board has   *)
(* changed its occupancy or colour.                                        *)
(***************************************************************************)
C1_AddRaisedBoardUnchanged ==
    (last.op = "add" /\ last.raised) => blocks = last.before

(***************************************************************************)
(* C2: check_add(origin, piece) is True exactly when every occupied cell   *)
(* of the piece, translated by origin, is a board coordinate whose cell is *)
(* unoccupied.                                                             *)
(***************************************************************************)
C2_CheckAddExact ==
    last.op = "check_add" =>
        (last.ret = TRUE <=>
            \A c \in Translated(Queue[last.piece], last.origin) : FreeCell(blocks, c))

\* check_add answered True for a piece of several cells on a board that
\* already holds occupied cells
C2_Witness ==
    /\ last.op = "check_add" /\ last.ret = TRUE
    /\ PieceSize(Queue[last.piece]) >= 2
    /\ Occupied(blocks) >= 1

(***************************************************************************)
(* C3: a successful add(origin, piece) makes exactly the translated piece  *)
(* cells occupied, in the piece's colour, leaves every other cell as it    *)
(* was, and raises the number of occupied cells by the size of the piece.  *)
(***************************************************************************)
C3_AddPlacesExactly ==
    (last.op = "add" /\ ~last.raised) =>
        LET p == Queue[last.piece]
            target == Translated(p, last.origin)
            old == last.before
        IN /\ Len(blocks) = Len(old)
           /\ \A n \in 1..Len(old) :
                 IF LineIK(old[n]) \in target
                 THEN /\ LineIK(blocks[n]) = LineIK(old[n])
                      /\ ~old[n].state
                      /\ blocks[n].state
                      /\ blocks[n].color = p.color
                 ELSE blocks[n] = old[n]
           /\ Occupied(blocks) = Occupied(old) + PieceSize(p)

\* a piece of several cells was added to a board that held occupied cells
C3_Witness ==
    /\ last.op = "add" /\ ~last.raised
    /\ PieceSize(Queue[last.piece]) >= 2
    /\ Occupied(last.before) >= 1

(***************************************************************************)
(* C4: eliminate() clears (occupancy False, colour -1) exactly the cells   *)
(* that lie on an I-, J- or K-line fully occupied before the call; every   *)
(* other cell keeps its occupancy and colour.                              *)
(***************************************************************************)
C4_EliminateExact ==
    last.op = "eliminate" =>
        LET old == last.before
        IN /\ Len(blocks) = Len(old)
           /\ \A n \in 1..Len(old) :
                 IF OnFullLine(old, n)
                 THEN /\ LineIK(blocks[n]) = LineIK(old[n])
                      /\ ~blocks[n].state
                      /\ blocks[n].color = -1
                 ELSE blocks[n] = old[n]

\* eliminate cleared a line and left an occupied cell on the board
C4_Witness ==
    /\ last.op = "eliminate" /\ Len(last.ret) > 0
    /\ Occupied(blocks) >= 1

(***************************************************************************)
(* C5: eliminate() returns each cleared cell exactly once, each snapshot   *)
(* showing the cell occupied, as it was before clearing.                   *)
(***************************************************************************)
C5_EliminateReturnsEachOnce ==
    last.op = "eliminate" =>
        /\ Len(last.ret) =
              Cardinality({ n \in 1..Len(blocks) : last.before[n].state /\ ~blocks[n].state })
        /\ \A n \in 1..Len(last.ret) : last.ret[n].state

(***************************************************************************)
(* C7: get_block(coord) is the board cell with the line coordinates of     *)
(* coord for every coord inside the radius and None for every coord        *)
(* outside it; _search answers -1 only for a coordinate no cell has.       *)
(***************************************************************************)
C7_LookupExact ==
    last.op = "get_block" =>
        LET h == last.origin
            at == CellsAt(blocks, LineIK(h))
        IN /\ IF InRadius(get_line_i(h), get_line_k(h), radius)
              THEN /\ ~IsNone(last.ret)
                   /\ LineIK(last.ret) = LineIK(h)
                   /\ \E n \in at : blocks[n] = last.ret
              ELSE IsNone(last.ret)
           /\ search(blocks, get_line_i(h), get_line_k(h), 0, Len(blocks) - 1) = -1
                 => at = {}

\* get_block found an occupied cell after a call that changed the board
C7_Witness ==
    /\ last.op = "get_block" /\ ~IsNone(last.ret) /\ last.ret.state
    /\ ops >= 1

(***************************************************************************)
(* The construction specification: HexEngine.__init__ run one pass of its  *)
(* inner loop at a time, for every radius up to MaxCtorRadius.             *)
(***************************************************************************)
InitCtor ==
    /\ ctor \in { CtorStart(r) : r \in 1..MaxCtorRadius }
    /\ BoardParked /\ ConvParked /\ EqParked /\ ObjParked /\ QueueParked

CtorLoop ==
    /\ ctor.pc = "loop"
    /\ ctor' = CtorStep(ctor)
    /\ UNCHANGED <<obj, queue, radius, blocks, ops, last, conv, pieceA, pieceB, cmp>>

NextCtor == CtorLoop

SpecCtor == InitCtor /\ [][NextCtor]_vars

(***************************************************************************)
(* C6: a newly constructed HexEngine(r) holds exactly 1 + 3r(r-1) cells,   *)
(* one unoccupied cell for each line coordinate (i, k) in the range of     *)
(* radius r, no coordinate twice, none outside, no slot left unfilled.     *)
(***************************************************************************)
C6_ConstructedCells ==
    /\ ctor.pc # "IndexError"
    /\ ctor.pc = "done" =>
          LET r == ctor.r
              bs == ctor.blocks
              want == { c \in (0..(2 * r - 2)) \X (0..(2 * r - 2)) : InRadius(c[1], c[2], r) }
          IN /\ Len(bs) = 1 + 3 * r * (r - 1)
             /\ ctor.index = Len(bs)
             /\ { LineIK(bs[n]) : n \in 1..Len(bs) } = want
             /\ \A n, m \in 1..Len(bs) : LineIK(bs[n]) = LineIK(bs[m]) => n = m
             /\ \A n \in 1..Len(bs) : ~bs[n].state
             /\ bs = HexEngine_init(r)

\* the construction of an engine of radius 3 or more has finished
C6_Witness == ctor.pc = "done" /\ ctor.r >= 3 /\ ctor.index = 1 + 3 * ctor.r * (ctor.r - 1)

(***************************************************************************)
(* The conversion specification: a data value and a colour are turned into *)
(* a piece by piece_from_byte and the piece back into a byte by to_byte.   *)
(***************************************************************************)
InitConv ==
    /\ conv \in { [pc |-> "start", data |-> d, color |-> c, piece |-> None, out |-> 0] :
                    d \in -2..MaxData, c \in Colors }
    /\ BoardParked /\ CtorParked /\ EqParked /\ ObjParked /\ QueueParked

\* Piece.piece_from_byte(conv.data, conv.color)
FromByte ==
    /\ conv.pc = "start"
    /\ LET res == piece_from_byte(conv.data, conv.color)
       IN conv' = [conv EXCEPT !.pc = IF res.raised THEN "raised" ELSE "built",
                               !.piece = res.piece]
    /\ UNCHANGED <<obj, queue, radius, blocks, ops, last, ctor, pieceA, pieceB, cmp>>

\* conv.piece.to_byte()
ToByte ==
    /\ conv.pc = "built"
    /\ conv' = [conv EXCEPT !.pc = "encoded", !.out = to_byte(conv.piece)]
    /\ UNCHANGED <<obj, queue, radius, blocks, ops, last, ctor, pieceA, pieceB, cmp>>

NextConv == FromByte \/ ToByte

SpecConv == InitConv /\ [][NextConv]_vars

(***************************************************************************)
(* C8: for every mask in 1..127 and every colour,                          *)
(* piece_from_byte(mask, colour).to_byte() = mask, bit 6 down to bit 0     *)
(* standing for (-1,-1), (-1,0), (0,-1), (0,0), (0,1), (1,0), (1,1).       *)
(***************************************************************************)
C8_ByteRoundTrip ==
    LET place == << <<-1, -1>>, <<-1, 0>>, <<0, -1>>, <<0, 0>>, <<0, 1>>, <<1, 0>>, <<1, 1>> >>
        bit(v, n) == (v \div (2 ^ (7 - n))) % 2 = 1
    IN (conv.data >= 1 /\ conv.data <= 127) =>
          /\ conv.pc # "raised"
          /\ conv.pc \in {"built", "encoded"} =>
                /\ \A n \in 1..7 : bit(conv.data, n) <=> place[n] \in PieceCells(conv.piece)
                /\ PieceCells(conv.piece) \subseteq { place[n] : n \in 1..7 }
          /\ conv.pc = "encoded" =>
                /\ conv.out = conv.data
                /\ \A n \in 1..7 : bit(conv.out, n) <=> place[n] \in PieceCells(conv.piece)

\* a mask of three or more cells has gone through both conversions
C8_Witness ==
    /\ conv.pc = "encoded" /\ conv.data >= 1 /\ conv.data <= 127
    /\ PieceSize(conv.piece) >= 3

(***************************************************************************)
(* C9: piece_from_byte raises ValueError for every data that is 0,         *)
(* negative or 128 and more; it returns a piece only for data in 1..127,   *)
(* and a returned piece has at least one occupied cell.                    *)
(***************************************************************************)
C9_FromByteRejects ==
    conv.pc # "start" =>
        /\ (conv.data <= 0 \/ conv.data >= 128) => conv.pc = "raised"
        /\ conv.pc # "raised" =>
              /\ conv.data >= 1 /\ conv.data <= 127
              /\ PieceSize(conv.piece) >= 1

(***************************************************************************)
(* The comparison specification: two pieces are built slot by slot with    *)
(* add_hex and compared with ==.                                           *)
(***************************************************************************)
\* the coordinates handed to add_hex
SlotCoords == { hex(i, k) : i \in 0..1, k \in 0..1 }

InitEq ==
    /\ pieceA \in { Piece(1, c) : c \in Colors }
    /\ pieceB \in { Piece(1, c) : c \in Colors }
    /\ cmp = [op |-> "none", raised |-> FALSE, ret |-> FALSE]
    /\ BoardParked /\ CtorParked /\ ConvParked /\ ObjParked /\ QueueParked

\* pieceA = Piece(n, c)
NewA(n, c) ==
    /\ pieceA' = Piece(n, c)
    /\ cmp' = [op |-> "new", raised |-> FALSE, ret |-> FALSE]
    /\ UNCHANGED <<obj, queue, radius, blocks, ops, last, ctor, conv, pieceB>>

\* pieceB = Piece(n, c)
NewB(n, c) ==
    /\ pieceB' = Piece(n, c)
    /\ cmp' = [op |-> "new", raised |-> FALSE, ret |-> FALSE]
    /\ UNCHANGED <<obj, queue, radius, blocks, ops, last, ctor, conv, pieceA>>

\* pieceA.add_hex(h)
AddHexA(h) ==
    /\ pieceA' = add_hex(pieceA, h)
    /\ cmp' = [op |-> "add_hex", raised |-> FALSE, ret |-> add_hex_ok(pieceA, h)]
    /\ UNCHANGED <<obj, queue, radius, blocks, ops, last, ctor, conv, pieceB>>

\* pieceB.add_hex(h)
AddHexB(h) ==
    /\ pieceB' = add_hex(pieceB, h)
    /\ cmp' = [op |-> "add_hex", raised |-> FALSE, ret |-> add_hex_ok(pieceB, h)]
    /\ UNCHANGED <<obj, queue, radius, blocks, ops, last, ctor, conv, pieceA>>

\* pieceA == pieceB: both slot lists are sorted before they are compared
Eq ==
    /\ LET res == Piece_eq(pieceA, pieceB)
       IN /\ pieceA' = [pieceA EXCEPT !.blocks = res.a]
          /\ pieceB' = [pieceB EXCEPT !.blocks = res.b]
          /\ cmp' = [op |-> "eq", raised |-> res.raised, ret |-> res.ret]
    /\ UNCHANGED <<obj, queue, radius, blocks, ops, last, ctor, conv>>

NextEq ==
    \/ \E h \in SlotCoords : AddHexA(h)
    \/ \E h \in SlotCoords : AddHexB(h)
    \/ Eq
    \/ \E n \in 0..MaxCap, c \in Colors : NewA(n, c)
    \/ \E n \in 0..MaxCap, c \in Colors : NewB(n, c)

SpecEq == InitEq /\ [][NextEq]_vars

(***************************************************************************)
(* C10: two pieces compare equal exactly when their sets of occupied       *)
(* coordinates are equal, whatever their colours, and the comparison       *)
(* yields True or False for every pair of pieces add_hex can build.        *)
(***************************************************************************)
C10_EqIsCellSetEquality ==
    cmp.op = "eq" =>
        /\ ~cmp.raised
        /\ cmp.ret <=> PieceCells(pieceA) = PieceCells(pieceB)

(***************************************************************************)
(* The coordinate specification: one coordinate object, a plain Hex or a   *)
(* Block, is made by a factory and then moved and shifted.  obj holds the  *)
(* object (cur), the last call with its arguments, the value the object    *)
(* held before the call, the value returned and whether the returned       *)
(* reference is the object itself.                                         *)
(***************************************************************************)
Axes == {"I", "J", "K"}

Lines == (0 - MaxLine)..MaxLine

Units == (0 - MaxUnit)..MaxUnit

InitHex ==
    /\ ObjParked
    /\ QueueParked /\ BoardParked /\ CtorParked /\ ConvParked /\ EqParked

\* obj = Hex.hex(i, k)
MakeHex(i, k) ==
    /\ obj' = [kind |-> "Hex", cur |-> hex(i, k), op |-> "hex", axis |-> "I",
               i |-> i, k |-> k, unit |-> 0, before |-> Hex(0, 0), ret |-> None,
               alias |-> FALSE]
    /\ UNCHANGED <<queue, radius, blocks, ops, last, ctor, conv, pieceA, pieceB, cmp>>

\* obj = Block.block(i, k, color)
MakeBlock(i, k, color) ==
    /\ obj' = [kind |-> "Block", cur |-> block(i, k, color), op |-> "block", axis |-> "I",
               i |-> i, k |-> k, unit |-> 0, before |-> Hex(0, 0), ret |-> None,
               alias |-> FALSE]
    /\ UNCHANGED <<queue, radius, blocks, ops, last, ctor, conv, pieceA, pieceB, cmp>>

\* the call leaves the object within the lines of the model
WithinLines(res) ==
    /\ get_line_i(res.self) \in Lines /\ get_line_k(res.self) \in Lines
    /\ IF IsNone(res.ret) THEN TRUE
       ELSE get_line_i(res.ret) \in Lines /\ get_line_k(res.ret) \in Lines

\* obj.shift_i(unit), obj.shift_j(unit) or obj.shift_k(unit)
Shift(axis, unit) ==
    /\ LET res == IF obj.kind = "Block" THEN Block_shift(obj.cur, axis, unit)
                  ELSE Hex_shift(obj.cur, axis, unit)
       IN /\ WithinLines(res)
          /\ obj' = [kind |-> obj.kind, cur |-> res.self, op |-> "shift", axis |-> axis,
                     i |-> 0, k |-> 0, unit |-> unit, before |-> obj.cur,
                     ret |-> res.ret, alias |-> res.alias]
    /\ UNCHANGED <<queue, radius, blocks, ops, last, ctor, conv, pieceA, pieceB, cmp>>

\* obj.move_i(unit), obj.move_j(unit) or obj.move_k(unit)
Move(axis, unit) ==
    /\ LET res == Hex_move(obj.cur, axis, unit)
       IN /\ WithinLines(res)
          /\ obj' = [kind |-> obj.kind, cur |-> res.self, op |-> "move", axis |-> axis,
                     i |-> 0, k |-> 0, unit |-> unit, before |-> obj.cur,
                     ret |-> res.ret, alias |-> res.alias]
    /\ UNCHANGED <<queue, radius, blocks, ops, last, ctor, conv, pieceA, pieceB, cmp>>

NextHex ==
    \/ \E i \in Lines, k \in Lines : MakeHex(i, k)
    \/ \E i \in Lines, k \in Lines, color \in Colors : MakeBlock(i, k, color)
    \/ \E axis \in Axes, unit \in Units : Shift(axis, unit)
    \/ \E axis \in Axes, unit \in Units : Move(axis, unit)

SpecHex == InitHex /\ [][NextHex]_vars

(***************************************************************************)
(* C11 (as amended): for the coordinate made by Hex.hex(i, k),             *)
(* get_line_i() = i, get_line_k() = k and get_line_j() = k - i, that is    *)
(* lineJ = lineK - lineI.                                                  *)
(***************************************************************************)
C11_LineJIsKMinusI ==
    obj.op = "hex" =>
        /\ get_line_i(obj.cur) = obj.i
        /\ get_line_k(obj.cur) = obj.k
        /\ get_line_j(obj.cur) = get_line_k(obj.cur) - get_line_i(obj.cur)

\* the factory was called with two different line indices, one negative
C11_Witness ==
    /\ obj.op = "hex" /\ obj.i # obj.k /\ obj.i < 0
    /\ get_line_j(obj.cur) # 0

(***************************************************************************)
(* C11 (as claimed): for the coordinate made by Hex.hex(i, k),             *)
(* get_line_i() = i, get_line_k() = k and lineJ = lineI - lineK.           *)
(***************************************************************************)
C11_LineJIsIMinusK ==
    obj.op = "hex" =>
        /\ get_line_i(obj.cur) = obj.i
        /\ get_line_k(obj.cur) = obj.k
        /\ get_line_j(obj.cur) = get_line_i(obj.cur) - get_line_k(obj.cur)

\* the object after the call is the object before it, displaced by unit
\* along axis: the line of that axis kept, the other two lines changed
Displaced(after, before, axis, unit) ==
    LET di == get_line_i(after) - get_line_i(before)
        dj == get_line_j(after) - get_line_j(before)
        dk == get_line_k(after) - get_line_k(before)
    IN CASE axis = "I" -> di = 0 /\ dj = unit /\ dk = unit
         [] axis = "J" -> di = unit /\ dj = 0 /\ dk = unit
         [] axis = "K" -> di = unit /\ dj = 0 - unit /\ dk = 0

\* colour and occupancy of a Block are those of before
SameCell(after, before) ==
    "color" \in DOMAIN before =>
        /\ "color" \in DOMAIN after
        /\ after.color = before.color /\ after.state = before.state

(***************************************************************************)
(* C12 (as amended): move_i, move_j and move_k change the object in place, *)
(* Hex and Block alike; shift_i, shift_j and shift_k of a plain Hex return *)
(* a new Hex and leave the receiver unchanged, while those of a Block move *)
(* the Block in place and return that same Block.                          *)
(***************************************************************************)
C12_ShiftAndMove ==
    /\ obj.op = "move" =>
          /\ Displaced(obj.cur, obj.before, obj.axis, obj.unit)
          /\ SameCell(obj.cur, obj.before)
          /\ IsNone(obj.ret)
    /\ (obj.op = "shift" /\ obj.kind = "Hex") =>
          /\ obj.cur = obj.before
          /\ ~obj.alias
          /\ Displaced(obj.ret, obj.before, obj.axis, obj.unit)
    /\ (obj.op = "shift" /\ obj.kind = "Block") =>
          /\ obj.alias
          /\ obj.ret = obj.cur
          /\ Displaced(obj.cur, obj.before, obj.axis, obj.unit)
          /\ SameCell(obj.cur, obj.before)

\* a Block was shifted by a unit other than zero
C12_Witness ==
    /\ obj.op = "shift" /\ obj.kind = "Block" /\ obj.unit # 0
    /\ obj.cur # obj.before

(***************************************************************************)
(* C12 (as claimed): shift_i, shift_j and shift_k return a new value and   *)
(* leave the object they are called on unchanged, while move_i, move_j and *)
(* move_k change the object in place, for plain Hex and Block alike.       *)
(***************************************************************************)
C12_ShiftLeavesReceiver ==
    /\ obj.op = "shift" =>
          /\ obj.cur = obj.before
          /\ ~obj.alias
          /\ Displaced(obj.ret, obj.before, obj.axis, obj.unit)
    /\ obj.op = "move" => Displaced(obj.cur, obj.before, obj.axis, obj.unit)

(***************************************************************************)
(* The query specification: an engine as HexReader reads it from a file,   *)
(* with any cells occupied, is asked for its indices and handed, with a    *)
(* queue of pieces, to the heuristics.  As in the board specification a    *)
(* call leaves its outcome in last, with the block list as it was before   *)
(* the call, and blocks then holds the block list the call has left.       *)
(***************************************************************************)
\* the subsets of S of at most k elements
RECURSIVE SetsUpTo(_, _)
SetsUpTo(S, k) ==
    IF k = 0 THEN {{}}
    ELSE LET prev == SetsUpTo(S, k - 1)
         IN prev \cup { p \cup {x} : p \in prev, x \in S }

\* the sets of occupied positions of the boards of radius r that are queried
Occupancies(r) ==
    LET all == 1..ArraySize(r)
        few == SetsUpTo(all, MaxFill)
    IN few \cup { all \ p : p \in few }

\* hexio.HexReader.__read, the engine of the uncoloured format: every block
\* is given the state of its bit and the colour -2
LoadedEngine(r, occ) ==
    LET bs == HexEngine_init(r)
    IN [n \in 1..Len(bs) |-> [bs[n] EXCEPT !.state = (n \in occ), !.color = -2]]

\* the pieces a queue is made of: two of one cell at (0,0), one of them with
\* an empty slot, one of two cells, the one of seven cells and the one of one
\* cell at (1,1)
Shapes == << Queue[1], Queue[2], Queue[6], Queue[7], Queue[9] >>

\* the queues handed to the heuristics
Queues ==
    { [n \in 1..Len(ix) |-> Shapes[ix[n]]] :
        ix \in UNION { [1..len -> 1..Len(Shapes)] : len \in 0..MaxQueue } }

InitQuery ==
    /\ radius \in 1..MaxQRadius
    /\ blocks \in { LoadedEngine(radius, occ) : occ \in Occupancies(radius) }
    /\ ops = 0
    /\ last = Idle
    /\ QueueParked /\ ObjParked /\ CtorParked /\ ConvParked /\ EqParked

\* engine.compute_dense_index(origin, Queue[q])
ComputeDenseIndex(origin, q) ==
    /\ last.op = "idle"
    /\ last' = Called("compute_dense_index", origin, q, FALSE,
                    compute_dense_index(blocks, radius, origin, Queue[q]), blocks)
    /\ UNCHANGED <<obj, queue, radius, blocks, ops, ctor, conv, pieceA, pieceB, cmp>>

\* engine.compute_entropy()
ComputeEntropy ==
    /\ last.op = "idle"
    /\ last' = Called("compute_entropy", Hex(0, 0), 0, FALSE,
                    compute_entropy(blocks, radius), blocks)
    /\ UNCHANGED <<obj, queue, radius, blocks, ops, ctor, conv, pieceA, pieceB, cmp>>

\* engine.compute_entropy_index(origin, Queue[q])
ComputeEntropyIndex(origin, q) ==
    /\ last.op = "idle"
    /\ \E res \in {compute_entropy_index(blocks, radius, origin, Queue[q])} :
          /\ blocks' = res.self
          /\ last' = Called("compute_entropy_index", origin, q, res.raised,
                          [copy |-> res.copy, now |-> res.now, after |-> res.after], blocks)
    /\ UNCHANGED <<obj, queue, radius, ops, ctor, conv, pieceA, pieceB, cmp>>

\* engine.check_positions(Queue[q])
CheckPositions(q) ==
    /\ last.op = "idle"
    /\ last' = Called("check_positions", Hex(0, 0), q, FALSE,
                    check_positions(blocks, radius, Queue[q]), blocks)
    /\ UNCHANGED <<obj, queue, radius, blocks, ops, ctor, conv, pieceA, pieceB, cmp>>

\* a heuristic called with the engine and the queue q has ended as res; where
\* it returns rd.choice(options), any one of options is what it returns
Heuristic(name, q, res) ==
    /\ queue' = q
    /\ IF res.exc = "" /\ res.index = -1
       THEN \E choice \in 1..Len(res.options) :
               last' = Called(name, Hex(0, 0), 0, FALSE,
                              Returned(res.options[choice], res.options), blocks)
       ELSE last' = Called(name, Hex(0, 0), 0, res.exc # "", res, blocks)
    /\ UNCHANGED <<obj, radius, blocks, ops, ctor, conv, pieceA, pieceB, cmp>>

\* algos.random(engine, q)
Random(q) == last.op = "idle" /\ Heuristic("random", q, random(blocks, radius, q))

\* algos.first(engine, q)
First(q) == last.op = "idle" /\ Heuristic("first", q, first(blocks, radius, q))

\* algos.nrminimax(engine, q)
NrMinimax(q) == last.op = "idle" /\ Heuristic("nrminimax", q, nrminimax(blocks, radius, q))

\* algos.nrsearch(engine, q)
NrSearch(q) == last.op = "idle" /\ Heuristic("nrsearch", q, nrsearch(blocks, radius, q))

\* nrminimax_autoplayimpl.algorithm(engine, q)
Algorithm(q) == last.op = "idle" /\ Heuristic("algorithm", q, algorithm(blocks, radius, q))

\* autoplay.alg(engine, q)
Alg(q) == last.op = "idle" /\ Heuristic("alg", q, alg(blocks, radius, q))

\* the caller takes the outcome of the query
QueryReturn ==
    /\ last.op # "idle"
    /\ last' = Idle
    /\ queue' = << >>
    /\ UNCHANGED <<obj, radius, blocks, ops, ctor, conv, pieceA, pieceB, cmp>>

NextQuery ==
    \/ \E origin \in Coords(radius), q \in 1..Len(Queue) : CheckAdd(origin, q)
    \/ \E q \in 1..Len(Queue) : CheckPositions(q)
    \/ \E origin \in Coords(radius), q \in 1..Len(Queue) : ComputeDenseIndex(origin, q)
    \/ ComputeEntropy
    \/ \E origin \in Coords(radius), q \in 1..Len(Queue) : ComputeEntropyIndex(origin, q)
    \/ \E q \in Queues : Random(q)
    \/ \E q \in Queues : First(q)
    \/ \E q \in Queues : NrMinimax(q)
    \/ \E q \in Queues : NrSearch(q)
    \/ \E q \in Queues : Algorithm(q)
    \/ \E q \in Queues : Alg(q)
    \/ QueryReturn

SpecQuery == InitQuery /\ [][NextQuery]_vars

(***************************************************************************)
(* Vocabulary of the claims about the queries.                             *)
(***************************************************************************)
\* the slots of piece that hold a cell
Cells(piece) == { n \in 1..Len(piece.blocks) : ~IsNone(piece.blocks[n]) }

\* no two cells of piece have the same coordinates
DistinctCoordinates(piece) ==
    \A a \in Cells(piece), b \in Cells(piece) :
        a # b => this(piece.blocks[a]) # this(piece.blocks[b])

\* with its origin at origin every cell of piece lies on an unoccupied cell
\* of the board bs
Legal(bs, origin, piece) ==
    \A n \in Cells(piece) :
        \E m \in 1..Len(bs) :
            /\ this(bs[m]) = Hex_add(this(piece.blocks[n]), origin)
            /\ ~bs[m].state

(***************************************************************************)
(* C13: compute_dense_index(origin, piece) returns 0 for every placement   *)
(* that is not legal and, for every legal one, populated / possible with   *)
(* 0 <= populated <= possible, whatever the board, the origin and the      *)
(* piece of distinct coordinates.                                          *)
(***************************************************************************)
C13_DenseIndexRange ==
    (last.op = "compute_dense_index" /\ DistinctCoordinates(Queue[last.piece])) =>
        IF Legal(last.before, last.origin, Queue[last.piece])
        THEN 0 <= last.ret.num /\ last.ret.num <= last.ret.den /\ last.ret.den > 0
        ELSE last.ret.num = 0

\* a legal placement whose index lies strictly between 0 and 1
C13_Witness ==
    /\ last.op = "compute_dense_index"
    /\ DistinctCoordinates(Queue[last.piece])
    /\ Legal(last.before, last.origin, Queue[last.piece])
    /\ 0 < last.ret.num /\ last.ret.num < last.ret.den

\* every cell of bs is occupied / no cell of bs is occupied
AllFilled(bs) == \A n \in 1..Len(bs) : bs[n].state

AllEmpty(bs) == \A n \in 1..Len(bs) : ~bs[n].state

\* the patterns a tally of compute_entropy has counted at least once; the
\* entropy is 0 exactly when there is at most one
PatternsSeen(tally) == { p \in 1..128 : tally.pattern_counts[p] > 0 }

\* the multiset of pattern frequencies of a tally: how many patterns have
\* been counted c times, for every c from 1 to the number of cells
Frequencies(tally, cells) ==
    [c \in 1..cells |-> Cardinality({ p \in 1..128 : tally.pattern_counts[p] = c })]

\* the board bs with the occupancy of every cell inverted
Inverted(bs) == [n \in 1..Len(bs) |-> [bs[n] EXCEPT !.state = ~bs[n].state]]

(***************************************************************************)
(* C14 (as claimed): compute_entropy() is 0 for a fully empty and for a    *)
(* fully occupied board of every radius >= 2: all the patterns sampled on  *)
(* such a board are one and the same pattern.                              *)
(***************************************************************************)
C14_UniformBoardZeroEntropy ==
    (/\ last.op = "compute_entropy"
     /\ radius >= 2
     /\ AllEmpty(last.before) \/ AllFilled(last.before)) =>
        Cardinality(PatternsSeen(last.ret)) <= 1

(***************************************************************************)
(* C15 (as claimed): compute_entropy() of a board equals compute_entropy() *)
(* of the board with the occupancy of every cell inverted: the multiset of *)
(* the frequencies of the sampled patterns is the same for the two boards. *)
(***************************************************************************)
C15_EntropyOfInvertedBoard ==
    last.op = "compute_entropy" =>
        Frequencies(last.ret, Len(last.before))
          = Frequencies(compute_entropy(Inverted(last.before), radius), Len(last.before))

\* the heuristics
Heuristics == {"random", "first", "nrminimax", "nrsearch", "algorithm", "alg"}

\* a heuristic has been called and has returned a placement
HasReturned == last.op \in Heuristics /\ ~last.raised

(***************************************************************************)
(* C16: whenever a heuristic returns (index, origin), index is a position  *)
(* of the queue and placing queue[index] at origin is legal on the board   *)
(* that was passed in.                                                     *)
(***************************************************************************)
C16_ReturnedPlacementLegal ==
    HasReturned =>
        /\ last.ret.index \in 0..(Len(queue) - 1)
        /\ Legal(last.before, last.ret.origin, queue[last.ret.index + 1])

\* first has passed over a piece with no legal origin and returned a
\* placement of the second piece on a board with an occupied cell
C16_Witness ==
    /\ HasReturned
    /\ last.op = "first"
    /\ last.ret.index = 1
    /\ ~AllEmpty(last.before)

\* the heuristics that list their candidates before they choose
Enumerating == {"random", "nrminimax", "nrsearch", "algorithm", "alg"}

\* the (index, origin) pairs of a candidate list
Pairs(options) == { << options[n][1], options[n][2] >> : n \in 1..Len(options) }

\* no piece of q before position index (0-based) has the mask of the piece there
FirstOccurrence(q, index) ==
    \A earlier \in 0..(index - 1) : to_byte(q[earlier + 1]) # to_byte(q[index + 1])

HasLegalOrigin(bs, q) ==
    \E n \in 1..Len(q), m \in 1..Len(bs) : Legal(bs, this(bs[m]), q[n])

\* score a is less than score b, both quotients [num, den]
ScoreLess(a, b) == a.num * b.den < b.num * a.den

\* candidate n of options has the greatest score and is the first that has it
FirstOfMaximalScore(options, n) ==
    \A m \in 1..Len(options) :
        /\ ~ScoreLess(options[n][3], options[m][3])
        /\ m < n => ScoreLess(options[m][3], options[n][3])

(***************************************************************************)
(* C18 (as claimed): nrminimax and nrsearch return a candidate of maximal  *)
(* score and, among several of that score, the one met first when the      *)
(* queue is walked in order and the origins of each piece in the order of  *)
(* the board.                                                              *)
(***************************************************************************)
C18_ReturnsFirstMaximal ==
    (last.op \in {"nrminimax", "nrsearch"} /\ HasLegalOrigin(last.before, queue)) =>
        /\ ~last.raised
        /\ \E n \in 1..Len(last.ret.options) :
              /\ last.ret.options[n][1] = last.ret.index
              /\ last.ret.options[n][2] = last.ret.origin
              /\ FirstOfMaximalScore(last.ret.options, n)

\* the calls that are to leave the board as it was
Queries ==
    Heuristics \cup {"check_add", "check_positions", "compute_dense_index",
                     "compute_entropy", "compute_entropy_index"}

(***************************************************************************)
(* C19: check_add, check_positions, compute_dense_index, compute_entropy,  *)
(* compute_entropy_index and the heuristics leave the board unchanged:     *)
(* after the call every cell has the occupancy and colour it had before;   *)
(* the copy of the engine that the trial placement and elimination act on  *)
(* shares no cell object with the engine.                                  *)
(***************************************************************************)
C19_BoardUnchanged ==
    /\ [][last'.op \in Queries => blocks' = blocks]_vars
    /\ [](\A n \in 1..Len(blocks) : ~HexEngine_copy(blocks).shared[n])

\* compute_entropy_index has placed the piece on its copy, and eliminate has
\* cleared there a cell that is occupied on the board
C19_Witness ==
    /\ last.op = "compute_entropy_index"
    /\ ~last.raised
    /\ blocks = last.before
    /\ \E n \in 1..Len(blocks) : blocks[n].state /\ ~last.ret.copy[n].state

(***************************************************************************)
(* C20 (as claimed): random, first, nrminimax, nrsearch and the algorithm  *)
(* of nrminimax_autoplayimpl raise ValueError when the queue is empty or   *)
(* no piece of the queue has a legal origin on the board, and return a     *)
(* placement in every other case.                                          *)
(***************************************************************************)
C20_ValueErrorOrPlacement ==
    last.op \in {"random", "first", "nrminimax", "nrsearch", "algorithm"} =>
        IF HasLegalOrigin(last.before, queue)
        THEN ~last.raised
        ELSE last.raised /\ last.ret.exc = "ValueError"

\* the example: check_positions of Piece.piece_from_byte(0b0000001, 1) has
\* been called on the empty board of radius 2
ExampleListed ==
    /\ last.op = "check_positions"
    /\ Queue[last.piece] = piece_from_byte(1, 1).piece
    /\ radius = 2
    /\ AllEmpty(last.before)

\* the coordinates a list of Hex holds
Listing(positions) == { positions[n] : n \in 1..Len(positions) }

(***************************************************************************)
(* C21 (as amended): on the empty board of radius 2, check_positions of    *)
(* Piece.piece_from_byte(0b0000001, 1), whose one cell is at (1, 1),       *)
(* returns the four coordinates (0,0), (0,1), (1,0), (1,1): the cells of   *)
(* the board from which one step to (1, 1) stays on the board.             *)
(***************************************************************************)
C21_ExampleFourOrigins ==
    ExampleListed => last.ret = << hex(0, 0), hex(0, 1), hex(1, 0), hex(1, 1) >>

C21_Witness == ExampleListed /\ Len(last.ret) = 4

(***************************************************************************)
(* C21 (as claimed): on the empty board of radius 2, check_positions of    *)
(* Piece.piece_from_byte(0b0000001, 1) returns all 7 board coordinates.    *)
(***************************************************************************)
C21_ExampleAllSeven ==
    ExampleListed =>
        /\ Len(last.ret) = 7
        /\ Listing(last.ret) = { this(last.before[n]) : n \in 1..Len(last.before) }

\* coordinate a comes before coordinate b in (line I, line K) order
Before(a, b) ==
    \/ get_line_i(a) < get_line_i(b)
    \/ get_line_i(a) = get_line_i(b) /\ get_line_k(a) < get_line_k(b)

\* the cells of the board bs that are legal origins of piece
LegalCells(bs, piece) ==
    { this(bs[n]) : n \in { m \in 1..Len(bs) : Legal(bs, this(bs[m]), piece) } }

(***************************************************************************)
(* C22 (as claimed): on the empty board of radius 2 with the queue         *)
(* [Piece.piece_from_byte(0b0000001, 1)], nrsearch gives every candidate   *)
(* origin the same score and returns the legal origin that is smallest in  *)
(* (line I, line K) order.                                                 *)
(***************************************************************************)
C22_ExampleSmallestOrigin ==
    (/\ last.op = "nrsearch"
     /\ queue = << piece_from_byte(1, 1).piece >>
     /\ radius = 2
     /\ AllEmpty(last.before)) =>
        /\ ~last.raised
        /\ \A n \in 1..Len(last.ret.options), m \in 1..Len(last.ret.options) :
              /\ ~ScoreLess(last.ret.options[n][3], last.ret.options[m][3])
        /\ last.ret.index = 0
        /\ last.ret.origin \in LegalCells(last.before, queue[1])
        /\ \A c \in LegalCells(last.before, queue[1]) : ~Before(c, last.ret.origin)

\* the block list bs is strictly ascending by (line I, line K)
Ascending(bs) == \A n \in 1..(Len(bs) - 1) : Before(bs[n], bs[n + 1])

OwnAdjacent(piece, n) ==
    Cardinality({ m \in 1..Len(piece.blocks) :
        /\ ~IsNone(piece.blocks[m]) /\ piece.blocks[m].state
        /\ \E d \in 1..Len(NeighborOffsets) :
              /\ get_line_i(piece.blocks[m])
                    = get_line_i(piece.blocks[n]) + NeighborOffsets[d][1]
              /\ get_line_k(piece.blocks[m])
                    = get_line_k(piece.blocks[n]) + NeighborOffsets[d][2] })

\* the sum over the occupied cells n.. of piece of 6 - OwnAdjacent
RECURSIVE OwnPossible(_, _)
OwnPossible(piece, n) ==
    IF n > Len(piece.blocks) THEN 0
    ELSE (IF ~IsNone(piece.blocks[n]) /\ piece.blocks[n].state
          THEN 6 - OwnAdjacent(piece, n) ELSE 0) + OwnPossible(piece, n + 1)

(***************************************************************************)
(* C24 (as claimed): for a legal placement the denominator of              *)
(* compute_dense_index is the sum, over the occupied cells of the piece,   *)
(* of 6 minus the number of the piece's own cells next to that cell,       *)
(* whatever the origin.                                                    *)
(***************************************************************************)
C24_DenominatorOfPiece ==
    (/\ last.op = "compute_dense_index"
     /\ DistinctCoordinates(Queue[last.piece])
     /\ Legal(last.before, last.origin, Queue[last.piece])) =>
        last.ret.den = OwnPossible(Queue[last.piece], 1)

\* the cells of bs that compute_entropy samples on a board of radius r
SampledCells(bs, r) == { this(bs[n]) : n \in { m \in 1..Len(bs) : Sampled(bs[m], r) } }

\* the cells of bs whose six neighbours all lie on the board of radius r
InnerCells(bs, r) ==
    { this(bs[n]) : n \in { m \in 1..Len(bs) :
        \A d \in 1..Len(NeighborOffsets) :
            HexEngine_in_range(r, hex(get_line_i(bs[m]) + NeighborOffsets[d][1],
                                      get_line_k(bs[m]) + NeighborOffsets[d][2])) } }

(***************************************************************************)
(* C25 (as claimed): on a board of radius r >= 2 compute_entropy samples,  *)
(* once each, exactly the cells whose six neighbours all lie on the board, *)
(* which are 1 + 3(r-1)(r-2) cells.                                        *)
(***************************************************************************)
C25_SamplesInnerCells ==
    (last.op = "compute_entropy" /\ radius >= 2) =>
        /\ SampledCells(last.before, radius) = InnerCells(last.before, radius)
        /\ last.ret.pattern_total = Cardinality(InnerCells(last.before, radius))
        /\ last.ret.pattern_total = 1 + 3 * (radius - 1) * (radius - 2)

\* the number of I-, J- and K-lines of the board bs that are fully occupied
FullLineCount(bs, r) ==
    Cardinality({ v \in 0..(r * 2 - 2) : AllOccupied(bs, LineOf(bs, "I", v)) })
      + Cardinality({ v \in (1 - r)..(r - 1) : AllOccupied(bs, LineOf(bs, "J", v)) })
      + Cardinality({ v \in 0..(r * 2 - 2) : AllOccupied(bs, LineOf(bs, "K", v)) })

\* the number of lines that placing piece at origin on the board bs clears
LinesCleared(bs, r, origin, piece) == FullLineCount(add(bs, r, origin, piece).blocks, r)

\* the candidate list options holds the placement of piece number index
\* (0-based) at origin, with a score of at least lines / r
ScoredWithLines(options, index, origin, lines, r) ==
    \E c \in 1..Len(options) :
        /\ options[c][1] = index
        /\ options[c][2] = origin
        /\ ~ScoreLess(options[c][3], [num |-> lines, den |-> r])

(***************************************************************************)
(* C26 (as claimed): nrsearch and nrminimax score every legal placement of *)
(* the first piece of the queue, and the elimination term of the score is  *)
(* the number of lines that the trial placement clears, divided by the     *)
(* radius of the board: where the placement clears a line, the candidate   *)
(* is listed with a score of at least that quotient.                       *)
(***************************************************************************)
C26_EliminationTerm ==
    (last.op \in {"nrsearch", "nrminimax"} /\ queue # << >>) =>
        \A m \in 1..Len(last.before) :
            (/\ Legal(last.before, this(last.before[m]), queue[1])
             /\ DistinctCoordinates(queue[1])
             /\ LinesCleared(last.before, radius, this(last.before[m]), queue[1]) > 0) =>
                ScoredWithLines(last.ret.options, 0, this(last.before[m]),
                                LinesCleared(last.before, radius, this(last.before[m]),
                                             queue[1]),
                                radius)

(***************************************************************************)
(* C27 (as claimed): nrminimax scores the candidates of a queue that has a *)
(* legal origin, and the argument it passes to the logistic function is    *)
(* (entropy after the trial placement and elimination) - (entropy of the   *)
(* given board) - 0.21, the quantity compute_entropy_index uses.           *)
(***************************************************************************)
C27_LogisticArgument ==
    (last.op = "nrminimax" /\ HasLegalOrigin(last.before, queue)) =>
        /\ last.ret.exc = ""
        /\ last.ret.options # << >>
        /\ nrminimax_shift = compute_entropy_index_shift

(***************************************************************************)
(* C28 (as claimed): for every board, every origin and every piece that    *)
(* add_hex can build, a coordinate held in two slots included, check_add   *)
(* of the board before the call is True exactly when add(origin, piece)    *)
(* returns without raising.                                                *)
(***************************************************************************)
C28_CheckAddIffAddReturns ==
    last.op = "add" =>
        (check_add(last.before, radius, last.origin, Queue[last.piece]) <=> ~last.raised)

(***************************************************************************)
(* C29: right after eliminate() has returned no I-, J- or K-line of the    *)
(* board is fully occupied, check_eliminate() is False, and a second       *)
(* eliminate() returns the empty list and changes no cell.                 *)
(***************************************************************************)
C29_EliminateIdempotent ==
    LET Again(res) == res.ret = << >> /\ res.blocks = blocks
    IN last.op = "eliminate" =>
          /\ FullLineCount(blocks, radius) = 0
          /\ ~check_eliminate(blocks, radius)
          /\ Again(eliminate(blocks, radius))

\* eliminate has cleared a line and has left a cell occupied
C29_Witness ==
    /\ last.op = "eliminate"
    /\ last.ret # << >>
    /\ \E n \in 1..Len(blocks) : blocks[n].state

(***************************************************************************)
(* C30 (as claimed): every origin of integer line coordinates at which     *)
(* check_add(origin, piece) is True is in the list check_positions(piece)  *)
(* returns, and the list is strictly ascending by (line I, line K).        *)
(***************************************************************************)
C30_PositionsComplete ==
    last.op = "check_positions" =>
        /\ \A origin \in Coords(radius) :
              check_add(last.before, radius, origin, Queue[last.piece])
                  => origin \in Listing(last.ret)
        /\ Ascending(last.ret)

====
